---- MODULE Spec2Model ----
(***************************************************************************)
(* Users API (src/app/main.py) and its settings loader (src/config.py).    *)
(*                                                                         *)
(* Spec     : the five request handlers, each run to completion.  The      *)
(*            handlers are `async def` without an await, so inside one     *)
(*            server process a handler is one atomic step.                 *)
(* SpecConc : two requests of update_user served by different worker       *)
(*            processes over the same SQLite file, interleaved at the      *)
(*            statements they send to the database.                        *)
(* SpecCfg  : Settings() of src/config.py over the environment.            *)
(***************************************************************************)
EXTENDS Integers, Sequences, FiniteSets, TLC

VARIABLES
    db,        \* table "user": the set of stored rows
    now,       \* what datetime.now() returns
    resp,      \* the response to the latest request
    issued,    \* history: the ids returned by create_user, in order
    deleted,   \* history: the ids removed by delete_user
    gone,      \* history: the ids removed by delete_user since the latest create_user
    made,      \* history: the rows returned by create_user while no row was changed or removed
    pristine,  \* history: no update_user or delete_user has succeeded yet
    pc,        \* SpecConc: where each worker's update_user stands
    req,       \* SpecConc: each worker's request (user_id, body)
    sess,      \* SpecConc: each worker's Session object db_user (loaded and current attributes)
    wstat,     \* SpecConc: each worker's response status
    seen,      \* SpecConc history: commits by other workers between a worker's lookup and its commit
    lastWrite, \* SpecConc history: the worker that committed last
    env,       \* SpecCfg: the process environment and the .env file
    boot,      \* SpecCfg: "init" before Settings(), then "ok" or "error" ("off" in the other specifications)
    settings   \* SpecCfg: the Settings object, once built

vars == <<db, now, resp, issued, deleted, gone, made, pristine,
          pc, req, sess, wstat, seen, lastWrite, env, boot, settings>>

apiVars  == <<db, now, resp, issued, deleted, gone, made, pristine>>
concVars == <<pc, req, sess, wstat, seen, lastWrite>>
cfgVars  == <<env, boot, settings>>

----------------------------------------------------------------------------
(* Bounds *)

MaxCreates == 2

MaxClock == 1

\* SpecConc: commits by other workers remembered per worker.
MaxSeen == 2

\* SpecCfg: the longest DATABASE_URL tried.
MaxLen == 2

----------------------------------------------------------------------------
(* Values.  Optional[T] is the empty set (None) or a singleton.            *)

None == {}

Some(v) == {v}

The(o) == CHOOSE v \in o : TRUE

UserIds == 1..(MaxCreates + 1)

\* A request body, validated against the User schema: id and created_at are optional.
Body(id, name, email, age, created_at) ==
    [id |-> id, name |-> name, email |-> email, age |-> age, created_at |-> created_at]

\* The request bodies tried: every field takes two values, and a body may carry the id
\* and the created_at of a stored User.
Bodies ==
    {Body(None, "Ann", "a@x.com", 30, None),
     Body(Some(1), "Bob", "a@x.com", 30, Some(0)),
     Body(None, "Ann", "b@x.com", 30, Some(0)),
     Body(Some(1), "Bob", "b@x.com", 31, None)}

----------------------------------------------------------------------------
(* The table and the statements the handlers send to it.                   *)

Ids(s) == {u.id : u \in s}

MaxOf(S) == CHOOSE m \in S : \A x \in S : x <= m

\* Mutant of NextRowid: the largest rowid itself.
NextRowidNoIncrement(s) == IF s = {} THEN 1 ELSE MaxOf(Ids(s))

\* SQLite, INTEGER PRIMARY KEY without AUTOINCREMENT: one more than the largest rowid in the table.
NextRowid(s) == IF s = {} THEN 1 ELSE MaxOf(Ids(s)) + 1

\* Mutant of NewUser: the request body's own id and created_at are kept (db.add(user)).
NewUserFromBody(body, t) ==
    [id |-> body.id, name |-> body.name, email |-> body.email, age |-> body.age,
     created_at |-> IF body.created_at = None THEN t ELSE The(body.created_at)]

\* User(name=..., email=..., age=...): id stays None, created_at is default_factory().
NewUser(body, t) ==
    [id |-> None, name |-> body.name, email |-> body.email, age |-> body.age,
     created_at |-> t]

\* The primary key INSERT gives the object.
InsertId(s, obj) == IF obj.id = None THEN NextRowid(s) ELSE The(obj.id)

\* db.add(obj); db.commit(): INSERT.  A primary key already in the table is an IntegrityError.
InsertOk(s, obj) == obj.id = None \/ The(obj.id) \notin Ids(s)

Insert(s, obj) ==
    s \cup {[id |-> InsertId(s, obj), name |-> obj.name, email |-> obj.email,
             age |-> obj.age, created_at |-> obj.created_at]}

\* Mutant of SelectById: the where clause is missing.
SelectByIdNoWhere(s, user_id) ==
    IF s = {} THEN None ELSE Some(CHOOSE u \in s : \A w \in s : u.id <= w.id)

\* select(User).where(User.id == user_id) ... .first(): None or the row.
SelectById(s, user_id) ==
    LET hit == {u \in s : u.id = user_id}
    IN  IF hit = {} THEN None ELSE Some(CHOOSE u \in hit : \A w \in hit : u.id <= w.id)

RECURSIVE ScanFrom(_, _)
ScanFrom(s, acc) ==
    IF s = {} THEN acc
    ELSE LET u == CHOOSE x \in s : \A y \in s : x.id <= y.id
         IN  ScanFrom(s \ {u}, Append(acc, u))

RECURSIVE ScanDownFrom(_, _)
ScanDownFrom(s, acc) ==
    IF s = {} THEN acc
    ELSE LET u == CHOOSE x \in s : \A y \in s : x.id >= y.id
         IN  ScanDownFrom(s \ {u}, Append(acc, u))

\* Mutant of SelectAll: the rows come newest first.
SelectAllDescending(s) == ScanDownFrom(s, <<>>)

\* select(User) ... .all(): a scan of the table, in rowid order.
SelectAll(s) == ScanFrom(s, <<>>)

\* Mutant of Refresh: created_at is read back with its low digits cut off.
RefreshTruncated(s, id) ==
    LET u == The(SelectById(s, id)) IN [u EXCEPT !.created_at = (@ \div 2) * 2]

\* db.refresh(obj): the row of obj's primary key, read back.
Refresh(s, id) == The(SelectById(s, id))

\* Mutant of Assign: created_at is copied from the body as well.
AssignAll(cur, body) ==
    [cur EXCEPT !.name = body.name, !.email = body.email, !.age = body.age,
                !.created_at = IF body.created_at = None THEN @ ELSE The(body.created_at)]

\* db_user.name = user.name; db_user.email = user.email; db_user.age = user.age
Assign(cur, body) ==
    [cur EXCEPT !.name = body.name, !.email = body.email, !.age = body.age]

Columns == {"name", "email", "age", "created_at"}

\* Mutant of ChangedCols: only name is tracked.
ChangedColsNameOnly(orig, cur) == {c \in {"name"} : cur.name # orig.name}

\* The unit of work writes the attributes whose value differs from the loaded one.
ChangedCols(orig, cur) ==
    {c \in Columns : (c = "name" /\ cur.name # orig.name)
                  \/ (c = "email" /\ cur.email # orig.email)
                  \/ (c = "age" /\ cur.age # orig.age)
                  \/ (c = "created_at" /\ cur.created_at # orig.created_at)}

\* Mutant of UpdateRow: the UPDATE has no WHERE.
UpdateRowNoWhere(s, id, cols, cur) ==
    {[id |-> u.id,
      name |-> IF "name" \in cols THEN cur.name ELSE u.name,
      email |-> IF "email" \in cols THEN cur.email ELSE u.email,
      age |-> IF "age" \in cols THEN cur.age ELSE u.age,
      created_at |-> IF "created_at" \in cols THEN cur.created_at ELSE u.created_at]
     : u \in s}

\* UPDATE user SET <changed columns> WHERE id = <primary key>
UpdateRow(s, id, cols, cur) ==
    {IF u.id = id
     THEN [id |-> u.id,
           name |-> IF "name" \in cols THEN cur.name ELSE u.name,
           email |-> IF "email" \in cols THEN cur.email ELSE u.email,
           age |-> IF "age" \in cols THEN cur.age ELSE u.age,
           created_at |-> IF "created_at" \in cols THEN cur.created_at ELSE u.created_at]
     ELSE u : u \in s}

\* db.commit() with db_user modified: the flush, then COMMIT.
Flush(s, orig, cur) == UpdateRow(s, orig.id, ChangedCols(orig, cur), cur)

\* Mutant of DeleteRow: the DELETE is never committed.
DeleteRowNothing(s, id) == s

\* db.delete(db_user); db.commit(): DELETE FROM user WHERE id = <primary key>
DeleteRow(s, id) == {u \in s : u.id # id}

----------------------------------------------------------------------------
(* Responses: status, the User objects of the body, the error detail.      *)

Response(op, arg, status, users, detail) ==
    [op |-> op, arg |-> arg, status |-> status, users |-> users, detail |-> detail]

NotFound(op, arg) == Response(op, arg, 404, <<>>, "User not found in the database")

NotFoundDelete(arg) == Response("delete", arg, 404, <<>>, "User not found")

----------------------------------------------------------------------------
(* Handlers, each as one step.                                             *)

\* POST /users/
create_user(body) ==
    /\ Len(issued) < MaxCreates
    /\ LET new_user == NewUser(body, now)
           id       == InsertId(db, new_user)
       IN  IF InsertOk(db, new_user)
           THEN /\ db' = Insert(db, new_user)
                /\ resp' = Response("create", 0, 201, <<Refresh(db', id)>>, "")
                /\ issued' = Append(issued, id)
                /\ made' = IF pristine THEN Append(made, Refresh(db', id)) ELSE made
                /\ gone' = {}
           ELSE /\ resp' = Response("create", 0, 500, <<>>, "IntegrityError")
                /\ UNCHANGED <<db, issued, made, gone>>
    /\ UNCHANGED <<now, deleted, pristine>>

\* GET /users
root ==
    /\ resp' = Response("list", 0, 200, SelectAll(db), "")
    /\ UNCHANGED <<db, now, issued, deleted, gone, made, pristine>>

\* GET /users/{user_id}
read_user(user_id) ==
    /\ LET user == SelectById(db, user_id)
       IN  IF user = None
           THEN resp' = NotFound("read", user_id)
           ELSE resp' = Response("read", user_id, 200, <<The(user)>>, "")
    /\ UNCHANGED <<db, now, issued, deleted, gone, made, pristine>>

\* PUT /users/{user_id}
update_user(user_id, body) ==
    /\ LET db_user == SelectById(db, user_id)
       IN  IF db_user = None
           THEN /\ resp' = NotFound("update", user_id)
                /\ UNCHANGED <<db, made, pristine>>
           ELSE /\ db' = Flush(db, The(db_user), Assign(The(db_user), body))
                /\ resp' = Response("update", user_id, 200,
                                    <<Refresh(db', The(db_user).id)>>, "")
                /\ made' = <<>>
                /\ pristine' = FALSE
    /\ UNCHANGED <<now, issued, deleted, gone>>

\* DELETE /users/{user_id}
delete_user(user_id) ==
    /\ LET db_user == SelectById(db, user_id)
       IN  IF db_user = None
           THEN /\ resp' = NotFoundDelete(user_id)
                /\ UNCHANGED <<db, deleted, gone, made, pristine>>
           ELSE /\ db' = DeleteRow(db, The(db_user).id)
                /\ resp' = Response("delete", user_id, 204, <<>>, "")
                /\ deleted' = deleted \cup {The(db_user).id}
                /\ gone' = gone \cup {The(db_user).id}
                /\ made' = <<>>
                /\ pristine' = FALSE
    /\ UNCHANGED <<now, issued>>

\* Time passes between two requests.
Tick ==
    /\ now < MaxClock
    /\ now' = now + 1
    /\ UNCHANGED <<db, resp, issued, deleted, gone, made, pristine>>

Workers == {"w1", "w2"}

NoSession == [orig |-> None, cur |-> None]

NoRequest == [user_id |-> 0, body |-> None]

ConcIdle ==
    /\ pc = [w \in Workers |-> "idle"]
    /\ req = [w \in Workers |-> NoRequest]
    /\ sess = [w \in Workers |-> NoSession]
    /\ wstat = [w \in Workers |-> 0]
    /\ seen = [w \in Workers |-> <<>>]
    /\ lastWrite = "none"

CfgIdle ==
    /\ env = [DATABASE_URL |-> None, dotenv |-> None]
    /\ boot = "off"
    /\ settings = None

\* SQLModel.metadata.create_all(engine) on a fresh file: the table, empty.
Init ==
    /\ db = {}
    /\ now = 0
    /\ resp = Response("none", 0, 0, <<>>, "")
    /\ issued = <<>>
    /\ deleted = {}
    /\ gone = {}
    /\ made = <<>>
    /\ pristine = TRUE
    /\ ConcIdle
    /\ CfgIdle

Next ==
    \/ \E body \in Bodies : create_user(body) /\ UNCHANGED <<concVars, cfgVars>>
    \/ root /\ UNCHANGED <<concVars, cfgVars>>
    \/ \E user_id \in UserIds : read_user(user_id) /\ UNCHANGED <<concVars, cfgVars>>
    \/ \E user_id \in UserIds, body \in Bodies :
          update_user(user_id, body) /\ UNCHANGED <<concVars, cfgVars>>
    \/ \E user_id \in UserIds : delete_user(user_id) /\ UNCHANGED <<concVars, cfgVars>>
    \/ Tick /\ UNCHANGED <<concVars, cfgVars>>

Spec == Init /\ [][Next]_vars

----------------------------------------------------------------------------
(* SpecConc: update_user in two worker processes, statement by statement.  *)
(* Each worker has its own Session (get_db); SQLite serialises the         *)
(* statements, and the SELECT of the lookup holds no lock until commit.    *)

Other(w) == CHOOSE v \in Workers : v # w

\* The ids the two workers are asked for: the stored User and one that is not stored.
ConcIds == {1, 2}

\* The request arrives; line 92, the lookup.  A missing row is answered 404 at once.
UpdLookup(w, user_id, body) ==
    /\ pc[w] = "idle"
    /\ req' = [req EXCEPT ![w] = [user_id |-> user_id, body |-> Some(body)]]
    /\ seen' = [seen EXCEPT ![w] = <<>>]
    /\ LET db_user == SelectById(db, user_id)
       IN  IF db_user = None
           THEN /\ pc' = [pc EXCEPT ![w] = "done"]
                /\ wstat' = [wstat EXCEPT ![w] = 404]
                /\ UNCHANGED sess
           ELSE /\ pc' = [pc EXCEPT ![w] = "looked"]
                /\ sess' = [sess EXCEPT ![w] = [orig |-> db_user, cur |-> db_user]]
                /\ UNCHANGED wstat
    /\ UNCHANGED <<db, lastWrite>>

\* Lines 99-101, on the worker's own object.
UpdAssign(w) ==
    /\ pc[w] = "looked"
    /\ sess' = [sess EXCEPT ![w].cur = Some(Assign(The(@), The(req[w].body)))]
    /\ pc' = [pc EXCEPT ![w] = "assigned"]
    /\ UNCHANGED <<db, req, wstat, seen, lastWrite>>

\* Line 102, db.commit(): the UPDATE of the changed columns and the COMMIT.
UpdCommit(w) ==
    /\ pc[w] = "assigned"
    /\ db' = Flush(db, The(sess[w].orig), The(sess[w].cur))
    /\ pc' = [pc EXCEPT ![w] = "committed"]
    /\ lastWrite' = w
    /\ seen' = [v \in Workers |->
                  IF v # w /\ pc[v] \in {"looked", "assigned"} /\ Len(seen[v]) < MaxSeen
                  THEN Append(seen[v], w) ELSE seen[v]]
    /\ UNCHANGED <<req, sess, wstat>>

\* Lines 103-104: db.refresh(db_user) and the 200 response.
UpdReturn(w) ==
    /\ pc[w] = "committed"
    /\ sess' = [sess EXCEPT ![w].cur = Some(Refresh(db, The(sess[w].orig).id))]
    /\ wstat' = [wstat EXCEPT ![w] = 200]
    /\ pc' = [pc EXCEPT ![w] = "done"]
    /\ UNCHANGED <<db, req, seen, lastWrite>>

\* get_db: the Session is closed once the response is out; the worker takes the next request.
SessionClose(w) ==
    /\ pc[w] = "done"
    /\ pc' = [pc EXCEPT ![w] = "idle"]
    /\ req' = [req EXCEPT ![w] = NoRequest]
    /\ sess' = [sess EXCEPT ![w] = NoSession]
    /\ wstat' = [wstat EXCEPT ![w] = 0]
    /\ UNCHANGED <<db, seen, lastWrite>>

\* The table after one create_user on the fresh file.
InitConc ==
    /\ \E body \in Bodies :
          /\ db = Insert({}, NewUser(body, 0))
          /\ resp = Response("create", 0, 201, <<Refresh(db, 1)>>, "")
          /\ made = <<Refresh(db, 1)>>
    /\ now = 0
    /\ issued = <<1>>
    /\ deleted = {}
    /\ gone = {}
    /\ pristine = TRUE
    /\ ConcIdle
    /\ CfgIdle

ConcFrame == UNCHANGED <<now, resp, issued, deleted, gone, made, pristine, cfgVars>>

NextConc ==
    \/ \E w \in Workers, user_id \in ConcIds, body \in Bodies :
          UpdLookup(w, user_id, body) /\ ConcFrame
    \/ \E w \in Workers : UpdAssign(w) /\ ConcFrame
    \/ \E w \in Workers : UpdCommit(w) /\ ConcFrame
    \/ \E w \in Workers : UpdReturn(w) /\ ConcFrame
    \/ \E w \in Workers : SessionClose(w) /\ ConcFrame

SpecConc == InitConc /\ [][NextConc]_vars

----------------------------------------------------------------------------
(* SpecCfg: settings = Settings() of src/config.py.                        *)
(* A string is a sequence of characters.                                   *)

Chars == {" ", "\t", "s"}

Whitespace == {" ", "\t", "\n", "\r"}

Strs == UNION {[1..n -> Chars] : n \in 0..MaxLen}

RECURSIVE LStrip(_)
LStrip(v) == IF v # <<>> /\ Head(v) \in Whitespace THEN LStrip(Tail(v)) ELSE v

RECURSIVE RStrip(_)
RStrip(v) ==
    IF v # <<>> /\ v[Len(v)] \in Whitespace THEN RStrip(SubSeq(v, 1, Len(v) - 1)) ELSE v

\* str.strip()
Strip(v) == RStrip(LStrip(v))

\* Mutant of validate_database_url: the whitespace test is missing.
validate_database_url_no_strip(v) == v # <<>>

\* validate_database_url: TRUE when v is returned, FALSE when ValueError is raised.
validate_database_url(v) == ~ (v = <<>> \/ Strip(v) = <<>>)

\* DATABASE_URL: str = ""
DefaultDatabaseUrl == <<>>

\* DATABASE_URL is given by the environment or by the .env file.
Supplied(e) == e.DATABASE_URL # None \/ e.dotenv # None

\* BaseSettings sets validate_default in its model_config, and class Config of Settings
\* does not unset it: the field validator runs on the default as well.
ValidateDefault == TRUE

\* BaseSettings: the environment variable, else the .env entry, else the default.
ResolveDatabaseUrl(e) ==
    IF e.DATABASE_URL # None THEN The(e.DATABASE_URL)
    ELSE IF e.dotenv # None THEN The(e.dotenv)
    ELSE DefaultDatabaseUrl

\* settings = Settings()
LoadSettings ==
    /\ boot = "init"
    /\ LET v == ResolveDatabaseUrl(env)
       IN  IF (Supplied(env) \/ ValidateDefault) => validate_database_url(v)
           THEN /\ boot' = "ok"
                /\ settings' = Some([API_PREFIX |-> "/api/v1", DATABASE_URL |-> v,
                                     ALLOWED_ORIGINS |-> "", DEBUG |-> FALSE])
           ELSE /\ boot' = "error"
                /\ settings' = None
    /\ UNCHANGED env

InitCfg ==
    /\ env \in [DATABASE_URL : {None} \cup {Some(v) : v \in Strs},
                dotenv : {None} \cup {Some(v) : v \in Strs}]
    /\ boot = "init"
    /\ settings = None
    /\ db = {}
    /\ now = 0
    /\ resp = Response("none", 0, 0, <<>>, "")
    /\ issued = <<>>
    /\ deleted = {}
    /\ gone = {}
    /\ made = <<>>
    /\ pristine = TRUE
    /\ ConcIdle

NextCfg == LoadSettings /\ UNCHANGED <<apiVars, concVars>>

SpecCfg == InitCfg /\ [][NextCfg]_vars

----------------------------------------------------------------------------
(* Properties of the handlers (Spec).                                      *)

Row(s, id) == CHOOSE u \in s : u.id = id

Others(s, id) == {u \in s : u.id # id}

\* C1: read_user, update_user and delete_user on an id that no stored User has answer
\* 404 and leave the table exactly as it was.
C1_MissingIdIsNotFound ==
    [][\A user_id \in UserIds :
          user_id \notin Ids(db) =>
             /\ read_user(user_id) => (resp'.status = 404 /\ db' = db)
             /\ delete_user(user_id) => (resp'.status = 404 /\ db' = db)
             /\ \A body \in Bodies :
                   update_user(user_id, body) => (resp'.status = 404 /\ db' = db)]_vars

C1_Witness ==
    /\ resp.op = "update" /\ resp.status = 404
    /\ db # {} /\ resp.arg \notin Ids(db)

\* C2: update_user on a stored id writes the body's name, email and age into that row
\* and keeps the row's id and created_at, whatever id or created_at the body carries;
\* no step at all changes the created_at of a row that stays stored.
C2_UpdateKeepsIdAndCreatedAt ==
    [][/\ \A user_id \in Ids(db), body \in Bodies :
             update_user(user_id, body) =>
                /\ Cardinality({u \in db' : u.id = user_id}) = 1
                /\ Row(db', user_id).name = body.name
                /\ Row(db', user_id).email = body.email
                /\ Row(db', user_id).age = body.age
                /\ Row(db', user_id).created_at = Row(db, user_id).created_at
                /\ resp'.status = 200
                /\ resp'.users = <<Row(db', user_id)>>
       /\ \A u \in db : \A w \in db' : w.id = u.id => w.created_at = u.created_at]_vars

\* The body with "Bob" and "a@x.com" carries id 1 and created_at 0; the row is 2, made at 1.
C2_Witness ==
    /\ resp.op = "update" /\ resp.status = 200 /\ resp.arg = 2
    /\ resp.users[1].name = "Bob" /\ resp.users[1].email = "a@x.com"
    /\ resp.users[1].id = 2 /\ resp.users[1].created_at = 1

\* C3: once delete_user has removed an id, and until the next create_user, read_user on
\* that id answers 404 and the list of root holds no record with that id.
C3_DeletedStaysGone ==
    [][\A user_id \in gone :
          /\ read_user(user_id) => resp'.status = 404
          /\ root => \A k \in 1..Len(resp'.users) : resp'.users[k].id # user_id]_vars

C3_Witness ==
    /\ resp.op = "list" /\ resp.users # <<>>
    /\ gone # {} /\ resp.arg = 0

\* C4: read_user with the id of the record create_user has just returned returns a
\* record equal to it in every field.
C4_CreateThenReadRoundTrip ==
    [][\A user_id \in UserIds :
          (/\ resp.op = "create" /\ resp.status = 201
           /\ resp.users[1].id = user_id
           /\ read_user(user_id))
          => (resp'.status = 200 /\ resp'.users = resp.users)]_vars

C4_Witness ==
    /\ resp.op = "read" /\ resp.status = 200
    /\ pristine /\ Len(made) = 2
    /\ resp.users[1] = made[2]

\* C5 as claimed: create_user never returns an id it has returned before.
C5_IdNeverReused ==
    \A p, q \in 1..Len(issued) : p # q => issued[p] # issued[q]

\* C5, amended: create_user returns an id a second time only after delete_user has
\* removed the User that held it, and no two stored Users ever share an id.
C5_IdReusedOnlyAfterDelete ==
    /\ \A p, q \in 1..Len(issued) : (p # q /\ issued[p] = issued[q]) => issued[p] \in deleted
    /\ Cardinality(Ids(db)) = Cardinality(db)
    /\ Ids(db) \subseteq {issued[p] : p \in 1..Len(issued)}

C5_Witness ==
    /\ \E p, q \in 1..Len(issued) : p # q /\ issued[p] = issued[q]
    /\ db # {}

\* C6: with only create_user run so far, the list of root is the records the creates
\* returned, in the order of the creates; with none, it is the empty list, status 200.
C6_ListIsTheCreatesInOrder ==
    (resp.op = "list" /\ pristine) => (resp.status = 200 /\ resp.users = made)

C6_Witness ==
    /\ resp.op = "list" /\ pristine
    /\ Len(made) = 2 /\ Len(resp.users) = 2

\* C9: create_user adds exactly one row, with an id no stored User has and created_at
\* the time of the call, the body's id and created_at notwithstanding, and changes no
\* row that was there.
C9_CreateAddsOneFreshRow ==
    [][\A body \in Bodies :
          create_user(body) =>
             \E u \in db' :
                /\ u \notin db
                /\ db' = db \cup {u}
                /\ u.id \notin Ids(db)
                /\ u.created_at = now
                /\ u.name = body.name /\ u.email = body.email /\ u.age = body.age
                /\ resp'.status = 201
                /\ resp'.users = <<u>>]_vars

\* Created from the body that carries id 1 and created_at 0, while User 1 is stored.
C9_Witness ==
    /\ resp.op = "create" /\ resp.status = 201
    /\ resp.users[1].name = "Bob" /\ resp.users[1].email = "a@x.com"
    /\ resp.users[1].id = 2 /\ resp.users[1].created_at = 1
    /\ 1 \in Ids(db)

\* C10: a successful update_user or delete_user on an id leaves every row of another
\* id as it was; read_user and root leave the whole table as it was.
C10_OtherRowsUntouched ==
    [][/\ \A user_id \in Ids(db) :
             /\ \A body \in Bodies :
                   update_user(user_id, body) => Others(db', user_id) = Others(db, user_id)
             /\ delete_user(user_id) => db' = Others(db, user_id)
       /\ \A user_id \in UserIds : read_user(user_id) => db' = db
       /\ root => db' = db]_vars

C10_Witness ==
    /\ resp.op \in {"update", "delete"} /\ resp.status \in {200, 204}
    /\ Others(db, resp.arg) # {}
    /\ \E u \in Others(db, resp.arg) : u.name = "Bob" /\ u.age = 31

----------------------------------------------------------------------------
(* Properties of two interleaved updates (SpecConc).                       *)

\* Both workers have answered 200 for the same id; w committed last, and between its
\* lookup and its commit exactly the other worker's commit took place.
Raced(w) ==
    /\ pc[w] = "done" /\ pc[Other(w)] = "done"
    /\ wstat[w] = 200 /\ wstat[Other(w)] = 200
    /\ req[w].user_id = req[Other(w)].user_id
    /\ lastWrite = w
    /\ seen[w] = <<Other(w)>>

Stored(w) == Row(db, req[w].user_id)

Input(w) == The(req[w].body)

\* C7 as claimed: after two interleaved updates of one id the stored name, email and
\* age are those of the update that committed last.
C7_LastWriteWinsWholeRecord ==
    \A w \in Workers :
       Raced(w) =>
          /\ Stored(w).name = Input(w).name
          /\ Stored(w).email = Input(w).email
          /\ Stored(w).age = Input(w).age

\* C7, amended: last write wins per field.  A field the last committer's input changed
\* (against the row it had looked up) holds that input's value; a field it did not
\* change holds what the earlier commit left, so every field is that of one of the two
\* inputs, and the record may mix them.
C7_LastWriteWinsPerField ==
    \A w \in Workers :
       Raced(w) =>
          LET u == Stored(w)  a == Input(w)  b == Input(Other(w))  r == The(sess[w].orig)
          IN  /\ u.name \in {a.name, b.name}
              /\ u.email \in {a.email, b.email}
              /\ u.age \in {a.age, b.age}
              /\ a.name # r.name => u.name = a.name
              /\ a.email # r.email => u.email = a.email
              /\ a.age # r.age => u.age = a.age
              /\ a.name = r.name => u.name = IF b.name # The(sess[Other(w)].orig).name
                                             THEN b.name ELSE r.name
              /\ a.email = r.email => u.email = IF b.email # The(sess[Other(w)].orig).email
                                                THEN b.email ELSE r.email
              /\ a.age = r.age => u.age = IF b.age # The(sess[Other(w)].orig).age
                                          THEN b.age ELSE r.age
              /\ u.id = r.id /\ u.created_at = r.created_at

\* Two raced updates have left a record that is neither input.
C7_Witness ==
    \E w \in Workers :
       /\ Raced(w)
       /\ <<Stored(w).name, Stored(w).email, Stored(w).age>>
             # <<Input(w).name, Input(w).email, Input(w).age>>
       /\ <<Stored(w).name, Stored(w).email, Stored(w).age>>
             # <<Input(Other(w)).name, Input(Other(w)).email, Input(Other(w)).age>>

----------------------------------------------------------------------------
(* Properties of Settings() (SpecCfg).                                     *)

\* C8: Settings() raises whenever the DATABASE_URL it resolves is empty or whitespace
\* only, be it supplied so or left to the default; no Settings object holds such a value.
C8_EmptyDatabaseUrlFailsAtStartup ==
    /\ boot \in {"ok", "error"} =>
          (boot = "error" <=> Strip(ResolveDatabaseUrl(env)) = <<>>)
    /\ boot = "error" => settings = None
    /\ boot = "ok" => settings # None
    /\ settings # None =>
          /\ The(settings).DATABASE_URL = ResolveDatabaseUrl(env)
          /\ The(settings).DATABASE_URL # <<>>
          /\ \E k \in 1..Len(The(settings).DATABASE_URL) :
                The(settings).DATABASE_URL[k] \notin Whitespace

\* DATABASE_URL is in neither the environment nor .env, and Settings() has raised.
C8_Witness ==
    /\ boot = "error"
    /\ env.DATABASE_URL = None /\ env.dotenv = None

====
